---------------------------- MODULE Spec2Model ----------------------------
(***************************************************************************)
(* color_bits: U8Iterator (src/src/lib.rs, mod bits) and ColorIterator     *)
(* (mod color) as state machines.                                          *)
(*                                                                         *)
(* The two iterator objects are kept as records holding the struct fields  *)
(* of the source.  Each method is an operator from the object (and its     *)
(* arguments) to the object after the call and the value returned; the     *)
(* actions apply the operators to the objects under observation and log    *)
(* what a caller sees (the values returned, the number of calls).          *)
(*                                                                         *)
(*   SpecU8     a stand-alone U8Iterator: empty()/from(b), then any        *)
(*              interleaving of reset_to(b) and next()                     *)
(*   SpecColor  a ColorIterator<OrderGBR> for a colour, pulled repeatedly  *)
(*   SpecOrder  a ColorIterator<Order> for every implementation of the     *)
(*              ColorOrder trait (every first()/next() table)              *)
(***************************************************************************)
EXTENDS Integers, Sequences, FiniteSets

VARIABLES
    u8,         \* the stand-alone U8Iterator: [value, remaining]
    u8seed,     \* Option<u8>: the byte of the last from()/reset_to(), None after empty()
    u8out,      \* the booleans next() returned since the last from()/reset_to()/empty()
    u8ret,      \* what the last call of next() returned (None before the first call)
    u8idle,     \* consecutive calls of next() that returned None
    u8op,       \* the last method called on u8
    u8prior,    \* Option: the iterator as it was when reset_to() was last called
    ci,         \* the ColorIterator: [color, iter, component]
    order,      \* the Order type parameter of ci: [first, next]
    rgb,        \* the arguments <<red, green, blue>> Color::new was called with
    cout,       \* the booleans ci.next() returned so far
    cret,       \* what the last call of ci.next() returned
    pulls,      \* the number of calls of ci.next() so far
    branch      \* the branch of ColorIterator::next the last call took

u8vars == <<u8, u8seed, u8out, u8ret, u8idle, u8op, u8prior>>
civars == <<ci, order, rgb, cout, cret, pulls, branch>>
vars == <<u8, u8seed, u8out, u8ret, u8idle, u8op, u8prior,
          ci, order, rgb, cout, cret, pulls, branch>>

---------------------------------------------------------------------------
(* Bounds of the exploration *)

\* consecutive end-of-sequence pulls of a U8Iterator that are followed
MaxIdle == 3
\* calls of ColorIterator::next that are followed (24 bits, then end-of-sequence)
MaxPulls == 27

---------------------------------------------------------------------------
(* Option<T>, u8 *)

None == <<>>
Some(x) == <<x>>

\* u8: value: u8 holds 0..U8_MOD-1
U8_MOD == 256
Byte == 0 .. (U8_MOD - 1)

\* const MSB_MASK: u8 = 0b1000_0000
MSB_MASK == 128

RECURSIVE BitAnd(_, _)
\* a & b on unsigned integers, bit by bit from the low end
BitAnd(a, b) ==
    IF a = 0 \/ b = 0 THEN 0
    ELSE (IF a % 2 = 1 /\ b % 2 = 1 THEN 1 ELSE 0) + 2 * BitAnd(a \div 2, b \div 2)

\* v.rotate_left(1) on a u8: the bit shifted out of the top comes back in
\* at the bottom
Shl1_Rotate(v) == ((v * 2) % U8_MOD) + (v \div MSB_MASK)

\* v << 1 on a u8: the bit shifted out of the top is lost
Shl1(v) == (v * 2) % U8_MOD

---------------------------------------------------------------------------
(* mod bits: U8Iterator *)

\* U8Iterator::empty()
U8Empty == [value |-> 0, remaining |-> 0]

\* reset_to that restarts the count only when the iterator is exhausted
U8ResetTo_KeepCount(self, value) ==
    [self EXCEPT !.value = value,
                 !.remaining = IF self.remaining = 0 THEN 8 ELSE self.remaining]

\* U8Iterator::reset_to(&mut self, value)
U8ResetTo(self, value) == [self EXCEPT !.value = value, !.remaining = 8]

\* <U8Iterator as From<u8>>::from(value)
U8From(value) == U8ResetTo(U8Empty, value)

\* next that ends the sequence with one bit still to come
U8Next_StopsEarly(self) ==
    IF self.remaining <= 1
    THEN [self |-> self, ret |-> None]
    ELSE [self |-> [value     |-> Shl1(self.value),
                    remaining |-> self.remaining - 1],
          ret  |-> Some(BitAnd(self.value, MSB_MASK) > 0)]

\* next that reads the least-significant bit and shifts right
U8Next_LsbFirst(self) ==
    IF self.remaining = 0
    THEN [self |-> self, ret |-> None]
    ELSE [self |-> [value     |-> self.value \div 2,
                    remaining |-> self.remaining - 1],
          ret  |-> Some(BitAnd(self.value, 1) > 0)]

\* next that shifts the working value also when nothing remains
U8Next_ShiftWhenEmpty(self) ==
    IF self.remaining = 0
    THEN [self |-> [self EXCEPT !.value = (2 * self.value + 1) % U8_MOD], ret |-> None]
    ELSE [self |-> [value     |-> Shl1(self.value),
                    remaining |-> self.remaining - 1],
          ret  |-> Some(BitAnd(self.value, MSB_MASK) > 0)]

\* <U8Iterator as Iterator>::next(&mut self): the iterator after the call
\* and the value returned
U8Next(self) ==
    IF self.remaining = 0
    THEN [self |-> self, ret |-> None]
    ELSE LET bit0 == BitAnd(self.value, MSB_MASK)
             bit  == bit0 > 0
         IN  [self |-> [value     |-> Shl1(self.value),
                        remaining |-> self.remaining - 1],
              ret  |-> Some(bit)]

\* size_hint with the lower bound of Iterator's default implementation
U8SizeHint_DefaultLower(self) == <<0, Some(self.remaining)>>

\* <U8Iterator as Iterator>::size_hint(&self)
U8SizeHint(self) == <<self.remaining, Some(self.remaining)>>

---------------------------------------------------------------------------
(* mod color: Color, Component, ColorOrder, OrderGBR, ColorIterator *)

Component == {"Red", "Green", "Blue"}

\* Color::new filling the fields in the order the struct declares them
ColorNew_FieldOrder(red, green, blue) == [green |-> red, red |-> green, blue |-> blue]

\* Color::new(red, green, blue)
ColorNew(red, green, blue) == [green |-> green, red |-> red, blue |-> blue]

\* Component::select_from(&self, color)
select_from(self, color) ==
    CASE self = "Green" -> color.green
      [] self = "Red"   -> color.red
      [] self = "Blue"  -> color.blue

\* an OrderGBR whose next() goes from Green straight to Blue
OrderGBR_SkipsRed ==
    [first |-> "Green",
     next  |-> [component \in Component |->
                   CASE component = "Green" -> Some("Blue")
                     [] component = "Red"   -> Some("Blue")
                     [] component = "Blue"  -> None]]

\* impl ColorOrder for OrderGBR
OrderGBR ==
    [first |-> "Green",
     next  |-> [component \in Component |->
                   CASE component = "Green" -> Some("Red")
                     [] component = "Red"   -> Some("Blue")
                     [] component = "Blue"  -> None]]

\* trait ColorOrder: every pair of a first() and a total next()
ColorOrder ==
    [first : Component,
     next  : [Component -> {None} \cup {Some(c) : c \in Component}]]

\* new that leaves the embedded iterator empty until the first pull
ColorIteratorNew_EmptyIter(Order, color) ==
    [color |-> color, iter |-> U8Empty, component |-> Some(Order.first)]

\* ColorIterator::<Order>::new(color)
ColorIteratorNew(Order, color) ==
    LET component == Order.first
        iter      == U8From(select_from(component, color))
    IN  [color |-> color, iter |-> iter, component |-> Some(component)]

\* next that starts over from Order::first() when the order is exhausted
ColorIteratorNext_Restart(Order, self) ==
    LET r == U8Next(self.iter)
    IN  IF r.ret # None
        THEN [self |-> [self EXCEPT !.iter = r.self], ret |-> r.ret, branch |-> "bit"]
        ELSE IF self.component # None
             THEN LET nxt == Order.next[self.component[1]]
                  IN  IF nxt # None
                      THEN LET reseeded == U8ResetTo(r.self, select_from(nxt[1], self.color))
                               r2       == U8Next(reseeded)
                           IN  [self   |-> [self EXCEPT !.component = nxt, !.iter = r2.self],
                                ret    |-> r2.ret,
                                branch |-> "advance"]
                      ELSE [self   |-> [self EXCEPT !.component = Some(Order.first),
                                                    !.iter = U8From(select_from(Order.first, self.color))],
                            ret    |-> None,
                            branch |-> "finish"]
             ELSE [self |-> [self EXCEPT !.iter = r.self], ret |-> None, branch |-> "done"]

\* next that reseeds from the channel of the cursor it is leaving
ColorIteratorNext_StaleCursor(Order, self) ==
    LET r == U8Next(self.iter)
    IN  IF r.ret # None
        THEN [self |-> [self EXCEPT !.iter = r.self], ret |-> r.ret, branch |-> "bit"]
        ELSE IF self.component # None
             THEN LET nxt == Order.next[self.component[1]]
                  IN  IF nxt # None
                      THEN LET reseeded == U8ResetTo(r.self, select_from(self.component[1], self.color))
                               r2       == U8Next(reseeded)
                           IN  [self   |-> [self EXCEPT !.component = nxt, !.iter = r2.self],
                                ret    |-> r2.ret,
                                branch |-> "advance"]
                      ELSE [self   |-> [self EXCEPT !.component = None, !.iter = r.self],
                            ret    |-> None,
                            branch |-> "finish"]
             ELSE [self |-> [self EXCEPT !.iter = r.self], ret |-> None, branch |-> "done"]

\* next that reseeds for the following channel and returns None for that pull
ColorIteratorNext_LazyAdvance(Order, self) ==
    LET r == U8Next(self.iter)
    IN  IF r.ret # None
        THEN [self |-> [self EXCEPT !.iter = r.self], ret |-> r.ret, branch |-> "bit"]
        ELSE IF self.component # None
             THEN LET nxt == Order.next[self.component[1]]
                  IN  IF nxt # None
                      THEN LET reseeded == U8ResetTo(r.self, select_from(nxt[1], self.color))
                           IN  [self   |-> [self EXCEPT !.component = nxt, !.iter = reseeded],
                                ret    |-> None,
                                branch |-> "advance"]
                      ELSE [self   |-> [self EXCEPT !.component = None, !.iter = r.self],
                            ret    |-> None,
                            branch |-> "finish"]
             ELSE [self |-> [self EXCEPT !.iter = r.self], ret |-> None, branch |-> "done"]

\* next that clears the cursor in the pull that emits the last bit of the
\* last channel
ColorIteratorNext_EagerFinish(Order, self) ==
    LET r == U8Next(self.iter)
    IN  IF r.ret # None
        THEN [self |-> [self EXCEPT !.iter = r.self,
                                    !.component =
                                        IF r.self.remaining = 0 /\ Order.next[self.component[1]] = None
                                        THEN None ELSE self.component],
              ret |-> r.ret, branch |-> "bit"]
        ELSE IF self.component # None
             THEN LET nxt == Order.next[self.component[1]]
                  IN  IF nxt # None
                      THEN LET reseeded == U8ResetTo(r.self, select_from(nxt[1], self.color))
                               r2       == U8Next(reseeded)
                           IN  [self   |-> [self EXCEPT !.component = nxt, !.iter = r2.self],
                                ret    |-> r2.ret,
                                branch |-> "advance"]
                      ELSE [self   |-> [self EXCEPT !.component = None, !.iter = r.self],
                            ret    |-> None,
                            branch |-> "finish"]
             ELSE [self |-> [self EXCEPT !.iter = r.self], ret |-> None, branch |-> "done"]

\* next that moves the channel's byte out of the stored colour when it
\* reseeds (core::mem::take leaves 0 behind)
ColorIteratorNext_TakesChannel(Order, self) ==
    LET r == U8Next(self.iter)
    IN  IF r.ret # None
        THEN [self |-> [self EXCEPT !.iter = r.self], ret |-> r.ret, branch |-> "bit"]
        ELSE IF self.component # None
             THEN LET nxt == Order.next[self.component[1]]
                  IN  IF nxt # None
                      THEN LET reseeded == U8ResetTo(r.self, select_from(nxt[1], self.color))
                               r2       == U8Next(reseeded)
                               taken    == CASE nxt[1] = "Green" -> [self.color EXCEPT !.green = 0]
                                             [] nxt[1] = "Red"   -> [self.color EXCEPT !.red = 0]
                                             [] nxt[1] = "Blue"  -> [self.color EXCEPT !.blue = 0]
                           IN  [self   |-> [self EXCEPT !.component = nxt, !.iter = r2.self,
                                                        !.color = taken],
                                ret    |-> r2.ret,
                                branch |-> "advance"]
                      ELSE [self   |-> [self EXCEPT !.component = None, !.iter = r.self],
                            ret    |-> None,
                            branch |-> "finish"]
             ELSE [self |-> [self EXCEPT !.iter = r.self], ret |-> None, branch |-> "done"]

\* next that takes an order leading back to Order::first() as exhausted
ColorIteratorNext_CycleGuard(Order, self) ==
    LET r == U8Next(self.iter)
    IN  IF r.ret # None
        THEN [self |-> [self EXCEPT !.iter = r.self], ret |-> r.ret, branch |-> "bit"]
        ELSE IF self.component # None
             THEN LET nxt == Order.next[self.component[1]]
                  IN  IF nxt # None /\ nxt # Some(Order.first)
                      THEN LET reseeded == U8ResetTo(r.self, select_from(nxt[1], self.color))
                               r2       == U8Next(reseeded)
                           IN  [self   |-> [self EXCEPT !.component = nxt, !.iter = r2.self],
                                ret    |-> r2.ret,
                                branch |-> "advance"]
                      ELSE [self   |-> [self EXCEPT !.component = None, !.iter = r.self],
                            ret    |-> None,
                            branch |-> "finish"]
             ELSE [self |-> [self EXCEPT !.iter = r.self], ret |-> None, branch |-> "done"]

\* <ColorIterator<Order> as Iterator>::next(&mut self): the iterator after
\* the call, the value returned and the branch taken
ColorIteratorNext(Order, self) ==
    LET r == U8Next(self.iter)
    IN  IF r.ret # None
        THEN [self |-> [self EXCEPT !.iter = r.self], ret |-> r.ret, branch |-> "bit"]
        ELSE IF self.component # None
             THEN LET nxt == Order.next[self.component[1]]
                  IN  IF nxt # None
                      THEN LET reseeded == U8ResetTo(r.self, select_from(nxt[1], self.color))
                               r2       == U8Next(reseeded)
                           IN  [self   |-> [self EXCEPT !.component = nxt, !.iter = r2.self],
                                ret    |-> r2.ret,
                                branch |-> "advance"]
                      ELSE [self   |-> [self EXCEPT !.component = None, !.iter = r.self],
                            ret    |-> None,
                            branch |-> "finish"]
             ELSE [self |-> [self EXCEPT !.iter = r.self], ret |-> None, branch |-> "done"]

\* Color::into_iter::<Order>(self)
into_iter(Order, color) == ColorIteratorNew(Order, color)

\* Color::into_iter_gbr(self)
into_iter_gbr(color) == into_iter(OrderGBR, color)

---------------------------------------------------------------------------
(* Inputs *)

\* channel values the colours are built from: the bytes of the doctests
\* (0, 255, 0b1010_1010, 0b1110_0001) and the two one-bit extremes
ChannelBytes == {0, 1, 128, 170, 225, 255}

\* channel values for the runs over every ColorOrder
OrderBytes == {0, 170, 225}

---------------------------------------------------------------------------
(* SpecU8: a stand-alone U8Iterator *)

\* a ColorIterator that exists and is never pulled
CiUntouched ==
    /\ rgb = <<0, 0, 0>>
    /\ ci = into_iter_gbr(ColorNew(rgb[1], rgb[2], rgb[3]))
    /\ order = OrderGBR
    /\ cout = <<>>
    /\ cret = None
    /\ pulls = 0
    /\ branch = "new"

\* let mut iter = U8Iterator::empty();  or  U8Iterator::from(b)
InitU8 ==
    /\ \/ /\ u8 = U8Empty
          /\ u8seed = None
          /\ u8op = "empty"
       \/ \E b \in Byte :
          /\ u8 = U8From(b)
          /\ u8seed = Some(b)
          /\ u8op = "from"
    /\ u8out = <<>>
    /\ u8ret = None
    /\ u8idle = 0
    /\ u8prior = None
    /\ CiUntouched

\* iter.reset_to(b)
ResetTo(b) ==
    /\ u8' = U8ResetTo(u8, b)
    /\ u8seed' = Some(b)
    /\ u8out' = <<>>
    /\ u8ret' = None
    /\ u8idle' = 0
    /\ u8op' = "reset_to"
    /\ u8prior' = Some([remaining |-> u8.remaining, seeded |-> u8seed # None])
    /\ UNCHANGED civars

\* iter.next()
Next8 ==
    /\ u8idle < MaxIdle
    /\ LET r == U8Next(u8)
       IN  /\ u8' = r.self
           /\ u8ret' = r.ret
           /\ u8out' = IF r.ret = None THEN u8out ELSE Append(u8out, r.ret[1])
           /\ u8idle' = IF r.ret = None THEN u8idle + 1 ELSE 0
    /\ u8op' = "next"
    /\ UNCHANGED <<u8seed, u8prior>>
    /\ UNCHANGED civars

NextU8 ==
    \/ \E b \in Byte : ResetTo(b)
    \/ Next8

SpecU8 == InitU8 /\ [][NextU8]_vars

---------------------------------------------------------------------------
(* SpecColor, SpecOrder: a ColorIterator *)

\* a U8Iterator that exists and is never used
U8Untouched ==
    /\ u8 = U8Empty
    /\ u8seed = None
    /\ u8out = <<>>
    /\ u8ret = None
    /\ u8idle = 0
    /\ u8op = "empty"
    /\ u8prior = None

\* let color = Color::new(red, green, blue);
\* let mut iter = color.into_iter::<Order>();
InitCi(Orders, Bytes) ==
    /\ order \in Orders
    /\ rgb \in Bytes \X Bytes \X Bytes
    /\ ci = into_iter(order, ColorNew(rgb[1], rgb[2], rgb[3]))
    /\ cout = <<>>
    /\ cret = None
    /\ pulls = 0
    /\ branch = "new"
    /\ U8Untouched

\* iter.next()
Pull ==
    /\ pulls < MaxPulls
    /\ LET r == ColorIteratorNext(order, ci)
       IN  /\ ci' = r.self
           /\ cret' = r.ret
           /\ cout' = IF r.ret = None THEN cout ELSE Append(cout, r.ret[1])
           /\ branch' = r.branch
    /\ pulls' = pulls + 1
    /\ UNCHANGED <<order, rgb>>
    /\ UNCHANGED u8vars

NextCi == Pull

InitColor == InitCi({OrderGBR}, ChannelBytes)
SpecColor == InitColor /\ [][NextCi]_vars

\* SpecColor with the caller pulling for as long as a pull is followed
SpecColorFair == InitColor /\ [][NextCi]_vars /\ WF_vars(Pull)

InitOrder == InitCi(ColorOrder, OrderBytes)
SpecOrder == InitOrder /\ [][NextCi]_vars

---------------------------------------------------------------------------
(* What the claims speak of *)

RECURSIVE Pow2(_)
Pow2(n) == IF n = 0 THEN 1 ELSE 2 * Pow2(n - 1)

\* bit j (0 = least significant) of byte b is set
BitSet(b, j) == (b \div Pow2(j)) % 2 = 1

\* the binary representation of b, most-significant bit first
MsbFirst(b) == [i \in 1..8 |-> BitSet(b, 8 - i)]

Prefix(s, n) == SubSeq(s, 1, n)
IsPrefix(s, t) == Len(s) <= Len(t) /\ s = Prefix(t, Len(s))

RECURSIVE Collect(_)
\* iter.collect::<Vec<bool>>(): next() until it returns None
Collect(iter) ==
    LET r == U8Next(iter)
    IN  IF r.ret = None THEN <<>> ELSE <<r.ret[1]>> \o Collect(r.self)

\* the last call on u8 was next() and it returned None
U8ReturnedNone == u8op = "next" /\ u8ret = None

---------------------------------------------------------------------------
(* C1 - For every byte b, pulling U8Iterator::from(b) until it returns None
   yields exactly 8 booleans, the i-th (i = 0..7) true exactly when bit 7 - i
   of b is set; the 9th pull returns None. *)
C1_FromYieldsMsbFirst ==
    (u8seed # None /\ u8prior = None) =>
        /\ Len(u8out) <= 8
        /\ \A i \in 0..7 : i < Len(u8out) => (u8out[i + 1] <=> BitSet(u8seed[1], 7 - i))
        /\ U8ReturnedNone => Len(u8out) = 8
        /\ (u8op = "next" /\ u8ret # None) => u8ret[1] = u8out[Len(u8out)]

\* from(0b1010_1010) collected, and the 9th pull made
C1_Witness ==
    /\ u8seed = Some(170) /\ u8prior = None
    /\ u8out = <<TRUE, FALSE, TRUE, FALSE, TRUE, FALSE, TRUE, FALSE>>
    /\ U8ReturnedNone /\ u8idle = 1

---------------------------------------------------------------------------
(* C2 - For every Color c, pulling c.into_iter_gbr() until None yields exactly
   24 booleans: pulls 1-8 are the output of U8Iterator::from(c.green), pulls
   9-16 that of from(c.red), pulls 17-24 that of from(c.blue), where
   Color::new(red, green, blue) assigns its arguments to the like-named
   channels. *)
C2_GbrConcatenation ==
    LET expected == Collect(U8From(rgb[2])) \o Collect(U8From(rgb[1]))
                        \o Collect(U8From(rgb[3]))
    IN  /\ Len(expected) = 24
        /\ IsPrefix(cout, expected)
        /\ Len(cout) = IF pulls < 24 THEN pulls ELSE 24
        /\ cret = None <=> (pulls = 0 \/ pulls > 24)

\* the doctest's pink, Color::new(255, 0b1010_1010, 0b1110_0001), collected
C2_Witness ==
    /\ rgb = <<255, 170, 225>>
    /\ pulls = 25 /\ cret = None
    /\ cout = <<TRUE, FALSE, TRUE, FALSE, TRUE, FALSE, TRUE, FALSE,
                TRUE, TRUE, TRUE, TRUE, TRUE, TRUE, TRUE, TRUE,
                TRUE, TRUE, TRUE, FALSE, FALSE, FALSE, FALSE, TRUE>>

---------------------------------------------------------------------------
(* Well-formed orders *)

RECURSIVE ChainFrom(_, _, _)
\* the components Order visits from c on, following next() for at most n steps
ChainFrom(Order, c, n) ==
    IF n = 0 THEN <<>>
    ELSE <<c>> \o (IF Order.next[c] = None THEN <<>>
                   ELSE ChainFrom(Order, Order.next[c][1], n - 1))

\* first(), next(first()), ... cut after a fourth component
Chain(Order) == ChainFrom(Order, Order.first, 4)

\* first() followed by repeated next() visits Red, Green and Blue exactly
\* once and then returns None
WellFormed(Order) ==
    /\ Len(Chain(Order)) = 3
    /\ {Chain(Order)[i] : i \in 1..3} = Component

\* the step is a call of ci.next()
IsPull == pulls' = pulls + 1

---------------------------------------------------------------------------
(* C3 - After a ColorIterator has produced its 24 bits, every further pull
   returns None, for any number of further pulls: once next() has returned
   None it never returns Some again. *)
C3_NoneIsFinal ==
    /\ [](WellFormed(order) /\ pulls > 24 => cret = None /\ Len(cout) = 24)
    /\ [][(branch # "new" /\ cret = None) => (cret' = None /\ cout' = cout)]_vars

\* OrderGBR: 24 bits produced, and every pull the run still makes returned None
C3_Witness ==
    /\ order = OrderGBR
    /\ Len(cout) = 24 /\ pulls = MaxPulls /\ pulls >= 27 /\ cret = None

---------------------------------------------------------------------------
(* C4 - After reset_to(b) on a U8Iterator in any state (fresh from empty(),
   after k pulls of a previous value, or exhausted) remaining is 8 and the
   next 8 pulls yield the bits of b MSB first followed by None; no bit of the
   previous value is produced after the reset. *)
C4_ResetRestarts ==
    u8prior # None =>
        /\ u8op = "reset_to" => u8.remaining = 8
        /\ IsPrefix(u8out, MsbFirst(u8seed[1]))
        /\ U8ReturnedNone => Len(u8out) = 8

\* reset mid-sequence (4 bits of the previous value unread) to 0b1100_0000,
\* then pulled 9 times
C4_Witness ==
    /\ u8prior = Some([remaining |-> 4, seeded |-> TRUE])
    /\ u8seed = Some(192)
    /\ u8out = <<TRUE, TRUE, FALSE, FALSE, FALSE, FALSE, FALSE, FALSE>>
    /\ U8ReturnedNone

---------------------------------------------------------------------------
(* C5 - In any U8Iterator state with remaining == 0 (created by empty(), or
   reached after 8 pulls) a pull returns None and leaves value and remaining
   unchanged, for any number of consecutive pulls; it never produces a bit. *)
C5_ExhaustedPullIsNoOp ==
    [][(u8.remaining = 0 /\ u8op' = "next") =>
          (u8ret' = None /\ u8' = u8 /\ u8out' = u8out)]_vars

\* empty(), pulled as often as the run goes
C5_Witness ==
    /\ u8seed = None /\ u8 = U8Empty
    /\ U8ReturnedNone /\ u8idle = MaxIdle /\ u8idle >= 3

---------------------------------------------------------------------------
(* C6 - U8Iterator::size_hint always returns (remaining, Some(remaining)) with
   equal lower and upper bound; from a fresh reset it reads 8, decreases by
   exactly 1 with each pull that returns Some, reaches 0 after the 8th pull
   and stays 0 on every later pull. *)
C6_SizeHintExact ==
    LET left == IF u8seed = None THEN 0 ELSE 8 - Len(u8out)
    IN  /\ left \in 0..8
        /\ U8SizeHint(u8) = <<left, Some(left)>>

\* 8 bits pulled and two more pulls made: the hint reads 0
C6_Witness ==
    /\ u8seed # None /\ Len(u8out) = 8 /\ u8idle = 2
    /\ U8SizeHint(u8) = <<0, Some(0)>>

---------------------------------------------------------------------------
(* C7 - For every well-formed ColorOrder (each of the 6 orderings whose chain
   from first() visits Red, Green and Blue exactly once and then ends)
   ColorIterator yields exactly 24 bits: the three channels' 8-bit MSB-first
   sequences concatenated in the order's sequence, with no gap and no channel
   emitted twice. *)
C7_WellFormedOrder ==
    WellFormed(order) =>
        LET ch == Chain(order)
            expected == MsbFirst(select_from(ch[1], ci.color))
                            \o MsbFirst(select_from(ch[2], ci.color))
                            \o MsbFirst(select_from(ch[3], ci.color))
        IN  /\ IsPrefix(cout, expected)
            /\ Len(cout) = IF pulls < 24 THEN pulls ELSE 24
            /\ cret = None <=> (pulls = 0 \/ pulls > 24)

\* the order Blue, Red, Green on a colour of three different channels
C7_Witness ==
    /\ Chain(order) = <<"Blue", "Red", "Green">>
    /\ rgb = <<170, 0, 225>>
    /\ pulls = 25
    /\ cout = MsbFirst(225) \o MsbFirst(170) \o MsbFirst(0)

---------------------------------------------------------------------------
(* C8 - A ColorIterator pull never returns None while a channel remains: when
   the embedded U8Iterator is exhausted and Order::next(cursor) returns a
   component, that same pull updates the cursor, reseeds the embedded
   iterator with that channel's byte and returns Some(MSB of that byte),
   leaving 7 bits remaining; a pull returns None only if the cursor is absent
   after the pull. *)
C8_TransparentAdvance ==
    [][IsPull =>
          /\ (ci.iter.remaining = 0 /\ ci.component # None
                  /\ order.next[ci.component[1]] # None) =>
                 LET nxt == order.next[ci.component[1]]
                     b   == select_from(nxt[1], ci.color)
                 IN  /\ ci'.component = nxt
                     /\ cret' = Some(BitSet(b, 7))
                     /\ ci'.iter.remaining = 7
                     /\ ci'.iter.value = (2 * b) % 256
          /\ cret' = None => ci'.component = None]_vars

\* the pull that moved the cursor to Blue and returned Blue's top bit
C8_Witness ==
    /\ branch = "advance"
    /\ ci.component = Some("Blue") /\ ci.color.blue = 225
    /\ ci.iter.remaining = 7 /\ cret = Some(TRUE)

---------------------------------------------------------------------------
(* C9 - In every reachable ColorIterator state where the cursor is present the
   embedded U8Iterator holds exactly the not-yet-emitted bits of the cursor's
   channel: with k = 8 - remaining its working value is
   (cursor.select_from(color) * 2^k) mod 256, and the k bits emitted since
   the cursor was set are the k most-significant bits of that channel. *)
C9_IterReflectsCursor ==
    ci.component # None =>
        LET k == 8 - ci.iter.remaining
            b == select_from(ci.component[1], ci.color)
        IN  /\ k \in 0..8
            /\ ci.iter.value = (b * Pow2(k)) % 256
            /\ Len(cout) >= k
            /\ SubSeq(cout, Len(cout) - k + 1, Len(cout)) = Prefix(MsbFirst(b), k)

\* the cursor on Red in a later position of the order, 5 bits of Red emitted
C9_Witness ==
    /\ ci.component = Some("Red") /\ order.first # "Red"
    /\ ci.color.red = 170 /\ ci.iter.remaining = 3
    /\ ci.iter.value = 64

---------------------------------------------------------------------------
(* C10 - The absent-cursor state of ColorIterator is absorbing and reachable
   only through Order::next returning None: a freshly constructed iterator
   always has a cursor, the cursor changes from present to absent only in a
   pull where the embedded iterator is exhausted and Order::next(cursor) is
   None, and once absent no pull makes it present again or reseeds the
   embedded iterator. *)
C10_AbsentCursorAbsorbing ==
    /\ [](branch = "new" => ci.component # None)
    /\ [][IsPull =>
             /\ (ci.component # None /\ ci'.component = None) =>
                    (ci.iter.remaining = 0 /\ order.next[ci.component[1]] = None)
             /\ ci.component = None =>
                    (ci'.component = None /\ ci'.iter = ci.iter)]_vars

\* a pull made with the cursor already absent
C10_Witness ==
    /\ branch = "done" /\ ci.component = None
    /\ WellFormed(order) /\ pulls = 26

---------------------------------------------------------------------------
(* C11 - A ColorIterator pull in which the embedded U8Iterator yields a bit
   returns that bit unchanged and leaves the cursor unchanged; and no pull of
   any kind ever modifies the stored Color's red, green or blue values. *)
C11_BitPassesThrough ==
    /\ [](ci.color = [red |-> rgb[1], green |-> rgb[2], blue |-> rgb[3]])
    /\ [][IsPull =>
             /\ ci.iter.remaining > 0 =>
                    /\ cret' = Some(BitSet(ci.iter.value, 7))
                    /\ ci'.component = ci.component
                    /\ branch' = "bit"
             /\ ci'.color = ci.color]_vars

\* a bit of Red (0b1010_1010) passed through after the cursor had moved twice
C11_Witness ==
    /\ branch = "bit" /\ Chain(order) = <<"Blue", "Green", "Red">>
    /\ ci.component = Some("Red") /\ rgb = <<170, 225, 0>>
    /\ Len(cout) = 20 /\ cret = Some(FALSE)

---------------------------------------------------------------------------
(* C12 - After any sequence of empty()/from(b)/reset_to(b)/next() operations
   on a U8Iterator, remaining is in 0..8; remaining is decremented only by a
   pull made when remaining > 0 (so it never goes below 0), is set to 8 only
   by reset_to/from, and remaining == 0 is the only state in which a pull
   returns None. *)
C12_RemainingRange ==
    /\ [](/\ u8.remaining \in 0..8
          /\ u8op = "empty" => u8.remaining = 0
          /\ u8op \in {"from", "reset_to"} => u8.remaining = 8)
    /\ [][/\ u8'.remaining < u8.remaining =>
                 (u8op' = "next" /\ u8.remaining > 0
                    /\ u8'.remaining = u8.remaining - 1)
          /\ u8'.remaining > u8.remaining =>
                 (u8op' = "reset_to" /\ u8'.remaining = 8)
          /\ u8op' = "next" =>
                 /\ u8ret' = None <=> u8.remaining = 0
                 /\ u8.remaining > 0 => u8'.remaining = u8.remaining - 1]_vars

\* empty(), reset_to(b), 8 pulls down to remaining 0 and a pull returning None
C12_Witness ==
    /\ u8prior = Some([remaining |-> 0, seeded |-> FALSE])
    /\ u8.remaining = 0 /\ Len(u8out) = 8
    /\ U8ReturnedNone /\ u8idle = 1

---------------------------------------------------------------------------
(* C13 - Each successful U8Iterator pull replaces the working value v by
   (2 * v) mod 256 (left shift by one within 8 bits, low bit zero-filled):
   after k successful pulls since the last reset to b the working value is
   (b * 2^k) mod 256, the bit returned by the next pull is bit 7 of that
   value, and after the 8th pull the working value is 0. *)
C13_ShiftWithinByte ==
    /\ [](u8seed # None =>
             /\ u8.value = (u8seed[1] * Pow2(Len(u8out))) % 256
             /\ u8.value \in 0..255
             /\ Len(u8out) = 8 => u8.value = 0)
    /\ [][(u8op' = "next" /\ u8ret' # None) =>
             /\ u8'.value = (2 * u8.value) % 256
             /\ u8'.value % 2 = 0
             /\ u8ret' = Some(BitSet(u8.value, 7))]_vars

\* 0b1110_0001 after 3 successful pulls: the working value is 0b0000_1000
C13_Witness ==
    /\ u8seed = Some(225) /\ Len(u8out) = 3
    /\ u8op = "next" /\ u8.value = 8

---------------------------------------------------------------------------
(* Malformed orders *)

RECURSIVE ConcatBits(_, _)
\* the MSB-first bytes of the channels ch names, one after the other
ConcatBits(ch, color) ==
    IF ch = <<>> THEN <<>>
    ELSE MsbFirst(select_from(Head(ch), color)) \o ConcatBits(Tail(ch), color)

\* the chain from first() reaches None: a next() table over 3 components
\* that names a fourth component in a row has named one twice, and cycles
Terminates(Order) == Len(Chain(Order)) <= 3

---------------------------------------------------------------------------
(* C14 - A malformed ColorOrder (a cycle, a skipped channel, or fewer than 3
   steps before none) produces a ColorIterator that emits the wrong number of
   bits or repeats/omits a channel, with no error raised: an order whose chain
   from first() has n components before None emits exactly 8*n bits in chain
   order, and an order whose next() never returns None never returns
   end-of-sequence. *)
C14_MalformedOrder ==
    LET n    == Len(Chain(order))
        sofar == ChainFrom(order, order.first, (pulls \div 8) + 1)
    IN  /\ IsPrefix(cout, ConcatBits(sofar, ci.color))
        /\ Terminates(order) =>
               /\ Len(cout) = IF pulls < 8 * n THEN pulls ELSE 8 * n
               /\ cret = None <=> (pulls = 0 \/ pulls > 8 * n)
        /\ ~Terminates(order) =>
               /\ Len(cout) = pulls
               /\ pulls > 0 => cret # None
               /\ ci.component # None
        /\ (~WellFormed(order) /\ pulls > 24) => Len(cout) # 24

\* an order whose next() is never None (Green and Red in turn): the 25th pull
\* returns the top bit of Red, emitted for the second time
C14_Witness ==
    /\ \A c \in Component : order.next[c] # None
    /\ Chain(order) = <<"Green", "Red", "Green", "Red">>
    /\ rgb = <<225, 170, 0>>
    /\ pulls = 25 /\ Len(cout) = 25 /\ cret = Some(TRUE)
    /\ ci.component = Some("Red") /\ branch = "advance"

---------------------------------------------------------------------------
(* C15 - For ColorIterator<OrderGBR> the cursor is not cleared by the pull
   that emits the 24th bit; after 24 pulls the cursor is still present (Blue)
   with the embedded iterator exhausted, and the cursor becomes absent exactly
   during the 25th pull, which is the first pull to return None. *)
C15_CursorClearedByPull25 ==
    /\ pulls \in 1..24 => (cret # None /\ ci.component # None)
    /\ pulls = 24 => (ci.component = Some("Blue") /\ ci.iter.remaining = 0
                        /\ Len(cout) = 24)
    /\ pulls = 25 => branch = "finish"
    /\ pulls >= 25 => (cret = None /\ ci.component = None)

\* the 25th pull on the doctest's pink: None, and the cursor gone
C15_Witness ==
    /\ rgb = <<255, 170, 225>> /\ pulls = 25
    /\ branch = "finish" /\ ci.component = None /\ ci.iter.remaining = 0

---------------------------------------------------------------------------
(* C16 - In every reachable state of ColorIterator<OrderGBR> with the cursor
   present, (bits emitted so far) + (embedded iterator's remaining)
   + 8 * (channels after the cursor in the order Green, Red, Blue) = 24;
   hence repeated pulling emits exactly 24 bits and reaches the terminal
   state after finitely many pulls. *)
ChannelsAfter(c) ==
    CASE c = "Green" -> 2
      [] c = "Red"   -> 1
      [] c = "Blue"  -> 0

C16_BitBudget ==
    /\ [](ci.component # None =>
             Len(cout) + ci.iter.remaining + 8 * ChannelsAfter(ci.component[1]) = 24)
    /\ [](ci.component = None => Len(cout) = 24)
    /\ <>(ci.component = None)

\* the cursor on Red with 3 bits of Red to come: 8 + 5 emitted, 8 for Blue
C16_Witness ==
    /\ ci.component = Some("Red") /\ ci.iter.remaining = 3
    /\ Len(cout) = 13 /\ rgb = <<1, 128, 255>>

=============================================================================
